---- MODULE Spec2Model ----
(***************************************************************************)
(* smooth_axis: time-normalised exponential smoothing of one analog axis,  *)
(* with a sign-flip noise estimate, a dynamic change threshold and sticky  *)
(* end zones (src/src/smooth_axis.c, the current implementation, lines     *)
(* 554..1049; the declarations are in src/unnamed/part_001).               *)
(*                                                                         *)
(* Numbers.  A C float is modelled as a decimal fixed-point number with    *)
(* six fractional digits: the integer x stands for x / One.  Products and  *)
(* quotients are rounded to the nearest representable value, as the C      *)
(* float operations are; sums and differences are exact.  Seconds in this  *)
(* scale are microseconds.  Integers of the C code (raw samples, max_raw,  *)
(* the cycle count) are plain integers.  The 32-bit millisecond clock is a *)
(* pair of 16-bit halves, so that its wrap-around is modelled.             *)
(***************************************************************************)
EXTENDS Integers, Sequences, FiniteSets, TLC

VARIABLES axis,    \* the smooth_axis_t under test (cfg and runtime fields)
          clock,   \* the value the clock source cfg.now_ms() returns
          call,    \* the last API call: its name, arguments and result, the
                   \* name and result of the call before it, and the number of
                   \* reports so far
          pre,     \* the axis as it was before the last API call
          run,     \* the current run of updates fed one and the same raw value
          steps    \* number of update calls made so far

vars == <<axis, clock, call, pre, run, steps>>

-----------------------------------------------------------------------------
(* float arithmetic in fixed point *)

One == 1000000

abs_f(x) == IF x < 0 THEN -x ELSE x

Min(a, b) == IF a < b THEN a ELSE b

\* |a| * |b| / One rounded to nearest, computed in pieces that fit 32 bits
MulMag(a, b) ==
    LET ah == a \div 1000
        al == a % 1000
        bh == b \div 1000
        bl == b % 1000
    IN  ah * bh + ((ah * bl + al * bh) + ((al * bl + 500000) \div 1000)) \div 1000

\* float product a * b
Mul(a, b) ==
    IF (a < 0) # (b < 0) THEN -MulMag(abs_f(a), abs_f(b))
                         ELSE MulMag(abs_f(a), abs_f(b))

RECURSIVE FracDigits(_, _, _)
\* the n decimal digits of r / b (0 <= r < b) after the point, last one rounded
FracDigits(r, b, n) ==
    IF n = 0 THEN (IF 2 * r >= b THEN 1 ELSE 0)
    ELSE LET d == (r * 10) \div b
             m == (r * 10) % b
         IN  d * (10 ^ (n - 1)) + FracDigits(m, b, n - 1)

\* |a| / |b| rounded to nearest; a quotient of 2000 or more is taken as 2000 (the
\* largest value the scale holds: every use of such a quotient clamps it to 1)
DivMag(a, b) ==
    IF a \div b >= 2000 THEN 2000 * One
    ELSE (a \div b) * One + FracDigits(a % b, b, 6)

\* float quotient a / b of two numbers given in the same scale (b # 0)
Div(a, b) ==
    IF (a < 0) # (b < 0) THEN -DivMag(abs_f(a), abs_f(b))
                         ELSE DivMag(abs_f(a), abs_f(b))

\* float x divided by the integer n > 0, rounded to nearest
DivInt(x, n) ==
    IF x < 0 THEN -((2 * (-x) + n) \div (2 * n)) ELSE (2 * x + n) \div (2 * n)

RECURSIVE ExpSeries(_, _)
\* Horner form of the series of exp(-f) for 0 <= f < One, from term i on
ExpSeries(f, i) ==
    IF i > 12 THEN One ELSE One - Mul(DivInt(f, i), ExpSeries(f, i + 1))

RECURSIVE expf(_)
\* expf(r) for r <= 0: e^-1 (0.367879) for every whole unit, the series for the rest
expf(r) ==
    IF -r >= One THEN Mul(367879, expf(r + One)) ELSE ExpSeries(-r, 1)

\* logf(0.05), src/src/smooth_axis.c:749
LN_RESIDUAL == -2995732

clamp_f(x, lo, hi) == IF x < lo THEN lo ELSE IF x > hi THEN hi ELSE x

clamp_f_0_1(x) == clamp_f(x, 0, One)

ema(old, new, alpha) == Mul(One - alpha, old) + Mul(alpha, new)

map_f(x, in_min, in_max, out_min, out_max) ==
    IF in_max = in_min THEN out_min
    ELSE LET t == Div(x - in_min, in_max - in_min)
         IN  out_min + Mul(t, out_max - out_min)

sign_of(residual) == IF residual > 0 THEN 1 ELSE IF residual < 0 THEN -1 ELSE 0

sign_has_flipped(current, previous) ==
    LET r_sign    == sign_of(current)
        last_sign == sign_of(previous)
    IN  r_sign # last_sign \/ (r_sign = 0 /\ last_sign = 0)

-----------------------------------------------------------------------------
(* the 32-bit millisecond clock, as two 16-bit halves *)

Half == 65536

U32(h, l) == [hi |-> h, lo |-> l]

\* a + d modulo 2^32, d a small non-negative integer
Add32(a, d) ==
    LET s == a.lo + d
    IN  U32((a.hi + s \div Half) % Half, s % Half)

\* faulty variant: a signed difference, which is negative across the wrap of
\* the clock and leaves the clamp at its lower end
Sub32_signed(a, b) ==
    IF a.hi < b.hi \/ (a.hi = b.hi /\ a.lo < b.lo) THEN U32(0, 0)
    ELSE LET borrow == IF a.lo < b.lo THEN 1 ELSE 0
         IN  U32(a.hi - b.hi - borrow, (a.lo - b.lo + Half) % Half)

\* unsigned a - b modulo 2^32
Sub32(a, b) ==
    LET borrow == IF a.lo < b.lo THEN 1 ELSE 0
    IN  U32((a.hi - b.hi - borrow + 2 * Half) % Half, (a.lo - b.lo + Half) % Half)

\* (float)d in milliseconds; every reading above 2000 ms is taken as 2000 ms,
\* which the clamp to SMOOTH_AXIS_AUTO_DT_MAX_MS cannot tell apart
FloatOfU32(d) == IF d.hi > 0 \/ d.lo > 2000 THEN 2000 * One ELSE d.lo * One

-----------------------------------------------------------------------------
(* compile-time configuration and the default "feel" parameters *)

SMOOTH_AXIS_INIT_CALIBRATION_CYCLES == 4096

SMOOTH_AXIS_AUTO_DT_MIN_MS == 100000
SMOOTH_AXIS_AUTO_DT_MAX_MS == 50000000
FALLBACK_DELTA_TIME == 16000

CANONICAL_MAX == 1023
FULL_OFF_U == 0
FULL_ON_U == 1023
STICKY_U == 3
MOVE_THRESH_U == 3
BETA == 5000
K == 3500000

AUTO_DT == "SMOOTH_AXIS_MODE_AUTO_DT"
LIVE_DT == "SMOOTH_AXIS_MODE_LIVE_DT"

-----------------------------------------------------------------------------
(* configuration *)

compute_dyn_scale(settle_time_sec) ==
    LET t_ref == 100000
        ratio == Div(settle_time_sec, t_ref)
    IN  Div(One, IF ratio < One THEN One ELSE ratio)

\* faulty variant: the settle time taken as the time constant of the filter
compute_ema_rate_time_constant(settle_time_sec) ==
    IF settle_time_sec <= 0 THEN 0 ELSE Div(-One, settle_time_sec)

compute_ema_rate(settle_time_sec) ==
    IF settle_time_sec <= 0 THEN 0 ELSE Div(LN_RESIDUAL, settle_time_sec)

\* faulty variant: no fallback for dt <= 0 or k = 0
ema_alpha_from_dt_unguarded(k, dt_sec) ==
    One - expf(clamp_f(Mul(k, dt_sec), -20 * One, 0))

ema_alpha_from_dt(k, dt_sec) ==
    IF dt_sec > 0 /\ k # 0
    THEN LET ratio == clamp_f(Mul(k, dt_sec), -20 * One, 0)
         IN  One - expf(ratio)
    ELSE One

\* the fields set_default_config fills in
set_default_config(max_raw) ==
    [max_raw              |-> IF max_raw # 0 THEN max_raw ELSE 1,
     full_off_norm        |-> clamp_f_0_1(Div(FULL_OFF_U, CANONICAL_MAX)),
     full_on_norm         |-> clamp_f_0_1(Div(FULL_ON_U, CANONICAL_MAX)),
     sticky_zone_norm     |-> clamp_f(Div(STICKY_U, CANONICAL_MAX), 0, 490000),
     movement_thresh_norm |-> clamp_f_0_1(Div(MOVE_THRESH_U, CANONICAL_MAX))]

\* now_ms: TRUE for a clock source, FALSE for a null pointer
smooth_axis_default_config_auto(max_raw, settle_time_sec, now_ms) ==
    LET d == set_default_config(max_raw)
    IN  [max_raw              |-> d.max_raw,
         full_off_norm        |-> d.full_off_norm,
         full_on_norm         |-> d.full_on_norm,
         sticky_zone_norm     |-> d.sticky_zone_norm,
         movement_thresh_norm |-> d.movement_thresh_norm,
         mode                 |-> AUTO_DT,
         settle_time_sec      |-> settle_time_sec,
         now_ms               |-> now_ms,
         _ema_rate            |-> compute_ema_rate(settle_time_sec),
         _dyn_scale           |-> compute_dyn_scale(settle_time_sec)]

smooth_axis_default_config_live_deltatime(max_raw, settle_time_sec) ==
    LET d == set_default_config(max_raw)
    IN  [max_raw              |-> d.max_raw,
         full_off_norm        |-> d.full_off_norm,
         full_on_norm         |-> d.full_on_norm,
         sticky_zone_norm     |-> d.sticky_zone_norm,
         movement_thresh_norm |-> d.movement_thresh_norm,
         mode                 |-> LIVE_DT,
         settle_time_sec      |-> settle_time_sec,
         now_ms               |-> FALSE,
         _ema_rate            |-> compute_ema_rate(settle_time_sec),
         _dyn_scale           |-> compute_dyn_scale(settle_time_sec)]

\* faulty variant: init leaves the axis as if a sample had been taken and a
\* report were pending
smooth_axis_init_pending_report(cfg) ==
    [cfg                 |-> cfg,
     _smoothed_norm      |-> 0,
     _dev_norm           |-> 10000,
     _last_reported_norm |-> One,
     _auto_alpha         |-> ema_alpha_from_dt(cfg._ema_rate, FALLBACK_DELTA_TIME),
     _dt_accum_sec       |-> 0,
     _warmup_cycles_done |-> 0,
     _last_time_ms       |-> U32(0, 0),
     _last_residual      |-> 0,
     _has_first_sample   |-> TRUE]

smooth_axis_init(cfg) ==
    [cfg                 |-> cfg,
     _smoothed_norm      |-> 0,
     _dev_norm           |-> 10000,
     _last_reported_norm |-> 0,
     _auto_alpha         |-> ema_alpha_from_dt(cfg._ema_rate, FALLBACK_DELTA_TIME),
     _dt_accum_sec       |-> 0,
     _warmup_cycles_done |-> 0,
     _last_time_ms       |-> U32(0, 0),
     _last_residual      |-> 0,
     _has_first_sample   |-> FALSE]

-----------------------------------------------------------------------------
(* input and output pipeline *)

\* faulty variant: no fallback to the full range for degenerate bounds
input_norm_unguarded(a, raw_value) ==
    LET max_raw == IF a.cfg.max_raw = 0 THEN 1 ELSE a.cfg.max_raw
        norm    == clamp_f_0_1(Div(raw_value, max_raw))
        off     == a.cfg.full_off_norm
        on      == a.cfg.full_on_norm
    IN  map_f(clamp_f(norm, off, on), off, on, 0, One)

input_norm(a, raw_value) ==
    LET max_raw == IF a.cfg.max_raw = 0 THEN 1 ELSE a.cfg.max_raw
        norm    == clamp_f_0_1(Div(raw_value, max_raw))
        degen   == a.cfg.full_on_norm <= a.cfg.full_off_norm
        off     == IF degen THEN 0 ELSE a.cfg.full_off_norm
        on      == IF degen THEN One ELSE a.cfg.full_on_norm
    IN  map_f(clamp_f(norm, off, on), off, on, 0, One)

\* faulty variant: no ceiling on the threshold
get_dynamic_thresh_unbounded(a) ==
    Mul(Mul(K, a._dev_norm), a.cfg._dyn_scale)

get_dynamic_thresh(a) ==
    LET base_thresh == a.cfg.movement_thresh_norm
        dyn_thresh  == Mul(K, a._dev_norm)
        scaled      == Mul(dyn_thresh, a.cfg._dyn_scale)
    IN  clamp_f(scaled, 0, 10 * base_thresh)

\* faulty variant: no sticky margins, the position is the output
apply_sticky_margins_no_snap(axis_position, sticky_margin_size) ==
    clamp_f_0_1(axis_position)

apply_sticky_margins(axis_position, sticky_margin_size) ==
    LET size           == clamp_f(sticky_margin_size, 0, 490000)
        sticky_ceiling == One - size
        sticky_floor   == size
    IN  IF axis_position >= sticky_ceiling THEN One
        ELSE IF axis_position <= sticky_floor THEN 0
        ELSE clamp_f_0_1(map_f(axis_position, 0, One, -size, One + size))

get_normalized(a) ==
    IF ~a._has_first_sample THEN 0
    ELSE apply_sticky_margins(a._smoothed_norm, a.cfg.sticky_zone_norm)

-----------------------------------------------------------------------------
(* warm-up (AUTO) and the update path *)

auto_warmup_has_finished(a) ==
    a._warmup_cycles_done >= SMOOTH_AXIS_INIT_CALIBRATION_CYCLES

\* faulty variant: the warm-up derives alpha from the running average on every cycle
auto_run_warmup_recalibrates_each_cycle(a, now) ==
    IF auto_warmup_has_finished(a) THEN a
    ELSE IF ~a.cfg.now_ms THEN a
    ELSE IF a._last_time_ms = U32(0, 0) THEN [a EXCEPT !._last_time_ms = now]
    ELSE LET dt_ms  == clamp_f(FloatOfU32(Sub32(now, a._last_time_ms)),
                               SMOOTH_AXIS_AUTO_DT_MIN_MS, SMOOTH_AXIS_AUTO_DT_MAX_MS)
             dt_sec == DivInt(dt_ms, 1000)
             accum  == a._dt_accum_sec + dt_sec
             cycles == (a._warmup_cycles_done + 1) % Half
         IN  [a EXCEPT !._last_time_ms = now,
                       !._dt_accum_sec = accum,
                       !._warmup_cycles_done = cycles,
                       !._auto_alpha =
                           ema_alpha_from_dt(a.cfg._ema_rate, DivInt(accum, cycles))]

\* now: what cfg.now_ms() returns if it is called (deployed build, NDEBUG)
auto_run_warmup_cycle_if_needed(a, now) ==
    IF auto_warmup_has_finished(a) THEN a
    ELSE IF ~a.cfg.now_ms THEN a
    ELSE IF a._last_time_ms = U32(0, 0) THEN [a EXCEPT !._last_time_ms = now]
    ELSE LET dt_ms  == clamp_f(FloatOfU32(Sub32(now, a._last_time_ms)),
                               SMOOTH_AXIS_AUTO_DT_MIN_MS, SMOOTH_AXIS_AUTO_DT_MAX_MS)
             dt_sec == DivInt(dt_ms, 1000)
             accum  == a._dt_accum_sec + dt_sec
             cycles == (a._warmup_cycles_done + 1) % Half
             b      == [a EXCEPT !._last_time_ms = now,
                                 !._dt_accum_sec = accum,
                                 !._warmup_cycles_done = cycles]
         IN  IF auto_warmup_has_finished(b)
             THEN [b EXCEPT !._auto_alpha =
                       ema_alpha_from_dt(b.cfg._ema_rate, DivInt(accum, cycles))]
             ELSE b


\* faulty variant: the first sample also seeds the noise estimate (as an earlier version did)
register_first_sample_seeds_noise(a, norm) ==
    IF ~a._has_first_sample
    THEN [a EXCEPT !._smoothed_norm = norm, !._has_first_sample = TRUE,
                   !._dev_norm = 5000, !._last_residual = 0]
    ELSE a

\* the axis after register_first_sample; the caller returns when it was the first
register_first_sample(a, norm) ==
    IF ~a._has_first_sample
    THEN [a EXCEPT !._smoothed_norm = norm, !._has_first_sample = TRUE]
    ELSE a

\* faulty variant: every residual feeds the noise estimate, flipped or not
update_deviation_every_residual(a, current_residual) ==
    LET dev == ema(a._dev_norm, abs_f(current_residual), BETA)
    IN  [a EXCEPT !._last_residual = current_residual,
                  !._dev_norm = clamp_f_0_1(dev)]

update_deviation(a, current_residual) ==
    LET zero_crossed == sign_has_flipped(current_residual, a._last_residual)
        new_sample   == IF zero_crossed THEN abs_f(current_residual) ELSE 0
        dev          == ema(a._dev_norm, new_sample, BETA)
    IN  [a EXCEPT !._last_residual = current_residual,
                  !._dev_norm = clamp_f_0_1(dev)]


\* faulty variant: the first sample is smoothed from 0 like any other sample
update_core_smooths_first_sample(a, raw_value, alpha) ==
    LET diff == input_norm(a, raw_value) - a._smoothed_norm
        b    == [a EXCEPT !._smoothed_norm = a._smoothed_norm + Mul(alpha, diff),
                          !._has_first_sample = TRUE]
    IN  update_deviation(b, diff)

\* faulty variant: the smoothing step lands on the far side of the target (ringing)
update_core_rings(a, raw_value, alpha) ==
    LET norm == input_norm(a, raw_value)
    IN  IF ~a._has_first_sample THEN register_first_sample(a, norm)
        ELSE LET diff == norm - a._smoothed_norm
                 b    == [a EXCEPT !._smoothed_norm =
                                       clamp_f_0_1(norm + Mul(One - alpha, diff))]
             IN  update_deviation(b, diff)

\* faulty variant: the smoothing step adds the whole residual on top of alpha * diff
update_core_extrapolates(a, raw_value, alpha) ==
    LET norm == input_norm(a, raw_value)
    IN  IF ~a._has_first_sample THEN register_first_sample(a, norm)
        ELSE LET diff == norm - a._smoothed_norm
                 b    == [a EXCEPT !._smoothed_norm =
                                       a._smoothed_norm + diff + Mul(alpha, diff)]
             IN  update_deviation(b, diff)

\* faulty variant: the noise estimator is fed the residual taken after the
\* smoothing step, as an earlier version did
update_core_residual_after_step(a, raw_value, alpha) ==
    LET norm == input_norm(a, raw_value)
    IN  IF ~a._has_first_sample THEN register_first_sample(a, norm)
        ELSE LET diff == norm - a._smoothed_norm
                 b    == [a EXCEPT !._smoothed_norm = a._smoothed_norm + Mul(alpha, diff)]
             IN  update_deviation(b, norm - b._smoothed_norm)

update_core(a, raw_value, alpha) ==
    LET norm == input_norm(a, raw_value)
    IN  IF ~a._has_first_sample THEN register_first_sample(a, norm)
        ELSE LET diff == norm - a._smoothed_norm
                 b    == [a EXCEPT !._smoothed_norm = a._smoothed_norm + Mul(alpha, diff)]
             IN  update_deviation(b, diff)


\* faulty variant: update_auto returns when the clock source is missing
update_auto_skips_without_clock(a, raw_value, now) ==
    IF a.cfg.mode # AUTO_DT \/ ~a.cfg.now_ms THEN a
    ELSE LET b == auto_run_warmup_cycle_if_needed(a, now)
         IN  update_core(b, raw_value, b._auto_alpha)

\* faulty variant: update_auto without the mode check
update_auto_any_mode(a, raw_value, now) ==
    LET b == auto_run_warmup_cycle_if_needed(a, now)
    IN  update_core(b, raw_value, b._auto_alpha)

smooth_axis_update_auto(a, raw_value, now) ==
    IF a.cfg.mode # AUTO_DT THEN a
    ELSE LET b == auto_run_warmup_cycle_if_needed(a, now)
         IN  update_core(b, raw_value, b._auto_alpha)

\* faulty variant: the update also stores the new position as the reported one
update_live_latches_report(a, raw_value, dt_sec) ==
    IF a.cfg.mode # LIVE_DT THEN a
    ELSE LET b == update_core(a, raw_value, ema_alpha_from_dt(a.cfg._ema_rate, dt_sec))
         IN  [b EXCEPT !._last_reported_norm = get_normalized(b)]

smooth_axis_update_live_deltatime(a, raw_value, dt_sec) ==
    IF a.cfg.mode # LIVE_DT THEN a
    ELSE update_core(a, raw_value, ema_alpha_from_dt(a.cfg._ema_rate, dt_sec))

-----------------------------------------------------------------------------
(* reset: declared and documented in the header; no implementation of it is
   part of the sources, so the operator follows the header's description.
   seeded tells the two readings of that description apart: the axis holds the
   new position as its first sample and as its reported position, or it is in
   its initial condition at the new position and takes a first sample again *)

\* faulty variant: reset as a second init, which restarts the warm-up
smooth_axis_reset_restarts_warmup(a, raw_value, seeded) ==
    LET b == [smooth_axis_init(a.cfg) EXCEPT !._smoothed_norm = input_norm(a, raw_value)]
    IN  IF seeded
        THEN [b EXCEPT !._has_first_sample = TRUE,
                       !._last_reported_norm = get_normalized(b)]
        ELSE b

smooth_axis_reset(a, raw_value, seeded) ==
    LET fresh == smooth_axis_init(a.cfg)
        b     == [a EXCEPT !._smoothed_norm      = input_norm(a, raw_value),
                           !._dev_norm           = fresh._dev_norm,
                           !._last_residual      = fresh._last_residual,
                           !._last_reported_norm = fresh._last_reported_norm,
                           !._has_first_sample   = FALSE]
    IN  IF seeded
        THEN [b EXCEPT !._has_first_sample = TRUE,
                       !._last_reported_norm = get_normalized(b)]
        ELSE b

-----------------------------------------------------------------------------
(* queries *)

smooth_axis_get_norm(a) == get_normalized(a)

smooth_axis_get_u16(a) ==
    LET max_out == a.cfg.max_raw
        n       == get_normalized(a)
    IN  IF n <= Div(1, max_out) THEN 0
        ELSE IF n >= Div(max_out - 1, max_out) THEN a.cfg.max_raw
        ELSE Mul(n, max_out)


\* the decision of has_new_value with the three tests switched on or off
HasNewValueWith(a, quantum, edges, latch) ==
    IF ~a._has_first_sample THEN [ret |-> FALSE, axis |-> a]
    ELSE LET current      == get_normalized(a)
             diff         == abs_f(current - a._last_reported_norm)
             max_raw      == IF a.cfg.max_raw # 0 THEN a.cfg.max_raw ELSE 1
             sticky_ceil  == One - a.cfg.sticky_zone_norm
             sticky_floor == a.cfg.sticky_zone_norm
             inside       == edges /\ ((current < sticky_floor) \/ (current > sticky_ceil))
         IN  IF quantum /\ diff <= Div(1, max_raw) THEN [ret |-> FALSE, axis |-> a]
             ELSE IF inside \/ diff > get_dynamic_thresh(a)
                  THEN [ret  |-> TRUE,
                        axis |-> IF latch THEN [a EXCEPT !._last_reported_norm = current]
                                          ELSE a]
                  ELSE [ret |-> FALSE, axis |-> a]

\* faulty variant: a report does not store the reported position
has_new_value_no_latch(a) == HasNewValueWith(a, TRUE, TRUE, FALSE)

\* faulty variant: no quantization-step test
has_new_value_no_quantum(a) == HasNewValueWith(a, FALSE, TRUE, TRUE)

\* faulty variant: the dynamic threshold applies at the extremes too
has_new_value_no_edges(a) == HasNewValueWith(a, TRUE, FALSE, TRUE)

\* faulty variant: a report stores the position before the sticky mapping
has_new_value_latches_smoothed(a) ==
    LET res == HasNewValueWith(a, TRUE, TRUE, FALSE)
    IN  IF res.ret
        THEN [ret |-> TRUE, axis |-> [a EXCEPT !._last_reported_norm = a._smoothed_norm]]
        ELSE res

\* faulty variant: every change above one quantization step is reported
has_new_value_any_change(a) ==
    IF ~a._has_first_sample THEN [ret |-> FALSE, axis |-> a]
    ELSE LET current == get_normalized(a)
             diff    == abs_f(current - a._last_reported_norm)
             max_raw == IF a.cfg.max_raw # 0 THEN a.cfg.max_raw ELSE 1
         IN  IF diff <= Div(1, max_raw) THEN [ret |-> FALSE, axis |-> a]
             ELSE [ret |-> TRUE, axis |-> [a EXCEPT !._last_reported_norm = current]]

\* [ret |-> the value returned, axis |-> the axis afterwards]
smooth_axis_has_new_value(a) ==
    IF ~a._has_first_sample THEN [ret |-> FALSE, axis |-> a]
    ELSE LET current      == get_normalized(a)
             last         == a._last_reported_norm
             diff         == abs_f(current - last)
             max_raw      == IF a.cfg.max_raw # 0 THEN a.cfg.max_raw ELSE 1
             epsilon      == Div(1, max_raw)
             sticky_ceil  == One - a.cfg.sticky_zone_norm
             sticky_floor == a.cfg.sticky_zone_norm
             inside_the_sticky_edges == (current < sticky_floor) \/ (current > sticky_ceil)
             dyn_thresh   == get_dynamic_thresh(a)
         IN  IF diff <= epsilon THEN [ret |-> FALSE, axis |-> a]
             ELSE IF inside_the_sticky_edges \/ diff > dyn_thresh
                  THEN [ret |-> TRUE, axis |-> [a EXCEPT !._last_reported_norm = current]]
                  ELSE [ret |-> FALSE, axis |-> a]

smooth_axis_get_noise_norm(a) == a._dev_norm

smooth_axis_get_effective_thresh_norm(a) == get_dynamic_thresh(a)

smooth_axis_get_effective_thresh_u(a) ==
    IF a.cfg.max_raw = 0 THEN 0
    ELSE LET t_norm == get_dynamic_thresh(a)
         IN  IF t_norm <= 0 THEN 0
             ELSE clamp_f(t_norm * a.cfg.max_raw + One \div 2, 0, a.cfg.max_raw * One) \div One

-----------------------------------------------------------------------------
(* the caller: bounds and inputs *)

\* update calls made on one axis
MaxSteps == 4

\* (max_raw, settle_time_sec) given to the config helpers
MaxRawInputs == {0, 1023}
SettleTimes == {250000}

Configs ==
    {smooth_axis_default_config_live_deltatime(m, t) : m \in MaxRawInputs, t \in SettleTimes}
    \cup {smooth_axis_default_config_auto(1023, t, TRUE) : t \in SettleTimes}

\* sticky zones a caller may write into the configuration: beyond the largest
\* margin that keeps floor and ceiling apart, and negative
StickyZones == {600000, -100000}

\* degenerate dead-zone bounds <<full_off_norm, full_on_norm>> a caller may
\* write into the configuration: inverted, and equal
DeadZones == {<<800000, 200000>>, <<500000, 500000>>}

\* configurations off the defaults: the 10-bit LIVE configuration as it comes
\* from the helper, configurations without smoothing (settle time 0), and an
\* AUTO configuration without clock source (now_ms = NULL), and configurations
\* with a sticky zone or with dead-zone bounds written by the caller
TunedConfigs ==
    {smooth_axis_default_config_live_deltatime(CANONICAL_MAX, t) : t \in SettleTimes}
    \cup {smooth_axis_default_config_live_deltatime(CANONICAL_MAX, 0),
          smooth_axis_default_config_auto(CANONICAL_MAX, 0, TRUE)}
    \cup {smooth_axis_default_config_auto(CANONICAL_MAX, t, FALSE) : t \in SettleTimes}
    \cup {[smooth_axis_default_config_live_deltatime(CANONICAL_MAX, t)
              EXCEPT !.sticky_zone_norm = z] : t \in SettleTimes, z \in StickyZones}
    \cup {[smooth_axis_default_config_live_deltatime(CANONICAL_MAX, t)
              EXCEPT !.full_off_norm = z[1], !.full_on_norm = z[2]] :
                  t \in SettleTimes, z \in DeadZones}

\* raw samples fed to an axis: both ends, and 5: just above the low sticky zone
\* of a 10-bit axis, beyond the range of an axis with max_raw = 1
RawSamples(a) == {0, 5, a.cfg.max_raw}

\* elapsed seconds handed to update_live_deltatime
DtSamples == {-16000, 0, 16000}

\* milliseconds the clock advances between two update_auto calls
ClockDeltas(a) == IF a.cfg.mode = AUTO_DT /\ a.cfg.now_ms THEN {0, 16} ELSE {0}

\* clock readings at start-up: zero, and a few milliseconds before the wrap
\* (an axis without clock source never reads it)
ClockStarts(a) ==
    IF a.cfg.mode = AUTO_DT /\ a.cfg.now_ms
    THEN {U32(0, 0), U32(Half - 1, Half - 20)}
    ELSE {U32(0, 0)}

\* raw: the value of the run, dir: the side its target lay on when it began,
\* rep, prev: the last two positions reported in it, first: it began at init
NoRun == [raw |-> -1, dir |-> 0, rep |-> -1, prev |-> -1, first |-> FALSE]

\* the run of equal raw values after an update with raw_value on axis a
RunAfterUpdate(r, a, raw_value, accepted) ==
    IF ~accepted \/ raw_value = r.raw THEN r
    ELSE [raw  |-> raw_value,
          dir  |-> sign_of(input_norm(a, raw_value) - a._smoothed_norm),
          rep  |-> -1,
          prev |-> -1,
          first |-> r.raw = -1]

RunAfterPoll(r, res) ==
    IF res.ret /\ r.raw # -1
    THEN [r EXCEPT !.rep = res.axis._last_reported_norm, !.prev = r.rep]
    ELSE r

-----------------------------------------------------------------------------------------------------------------------------------------------------
(* the state machine *)

INIT == "smooth_axis_init"
UPDATE_AUTO == "smooth_axis_update_auto"
UPDATE_LIVE == "smooth_axis_update_live_deltatime"
HAS_NEW_VALUE == "smooth_axis_has_new_value"
RESET == "smooth_axis_reset"

\* reports: the calls that have returned true since init or reset, counted up
\* to two
Call(op, raw_value, dt_sec, ret) ==
    [op |-> op, raw |-> raw_value, dt |-> dt_sec, ret |-> ret,
     prev_op |-> call.op, prev_ret |-> call.ret,
     reports |-> IF ret THEN Min(call.reports + 1, 2) ELSE call.reports]

Init ==
    /\ \E cfg \in Configs : axis = smooth_axis_init(cfg)
    /\ clock \in ClockStarts(axis)
    /\ call = [op |-> INIT, raw |-> 0, dt |-> 0, ret |-> FALSE,
               prev_op |-> INIT, prev_ret |-> FALSE, reports |-> 0]
    /\ pre = axis
    /\ run = NoRun
    /\ steps = 0

\* the clock advances by some d of deltas, then update_auto(&axis, raw_value);
\* call.dt keeps d, the milliseconds that have really passed
UpdateAutoWith(raws, deltas) ==
    /\ \E raw_value \in raws, d \in deltas :
         LET now == Add32(clock, d)
         IN  /\ clock' = now
             /\ axis' = smooth_axis_update_auto(axis, raw_value, now)
             /\ call' = Call(UPDATE_AUTO, raw_value, d, FALSE)
             /\ run' = RunAfterUpdate(run, axis, raw_value, axis.cfg.mode = AUTO_DT)
    /\ pre' = axis
    /\ steps' = steps + 1

\* update_live_deltatime(&axis, raw_value, dt_sec)
UpdateLiveWith(raws, dts) ==
    /\ \E raw_value \in raws, dt_sec \in dts :
         /\ axis' = smooth_axis_update_live_deltatime(axis, raw_value, dt_sec)
         /\ call' = Call(UPDATE_LIVE, raw_value, dt_sec, FALSE)
         /\ run' = RunAfterUpdate(run, axis, raw_value, axis.cfg.mode = LIVE_DT)
    /\ pre' = axis
    /\ steps' = steps + 1
    /\ UNCHANGED clock

UpdateAuto == steps < MaxSteps /\ UpdateAutoWith(RawSamples(axis), ClockDeltas(axis))

UpdateLiveDeltatime == steps < MaxSteps /\ UpdateLiveWith(RawSamples(axis), DtSamples)

HasNewValue ==
    LET res == smooth_axis_has_new_value(axis)
    IN  /\ axis' = res.axis
        /\ call' = Call(HAS_NEW_VALUE, 0, 0, res.ret)
        /\ run' = RunAfterPoll(run, res)
        /\ pre' = axis
        /\ UNCHANGED <<clock, steps>>

Next == UpdateAuto \/ UpdateLiveDeltatime \/ HasNewValue

Spec == Init /\ [][Next]_vars

\* the same calls on an axis initialized from a tuned configuration
InitTuned ==
    /\ \E cfg \in TunedConfigs : axis = smooth_axis_init(cfg)
    /\ clock \in ClockStarts(axis)
    /\ call = [op |-> INIT, raw |-> 0, dt |-> 0, ret |-> FALSE,
               prev_op |-> INIT, prev_ret |-> FALSE, reports |-> 0]
    /\ pre = axis
    /\ run = NoRun
    /\ steps = 0

SpecTuned == InitTuned /\ [][Next]_vars

-----------------------------------------------------------------------------
(* the warm-up of an AUTO axis, followed to its end: a few free calls, then
   the steady loop of an application, which every 16 ms feeds one raw value
   and polls has_new_value *)

\* calls with free raw values, irregular intervals and free polling at the
\* start of the run
WarmupFree == 2

\* update calls followed after the last warm-up cycle
WarmupTail == 4

WarmupRaws == IF steps < WarmupFree THEN {0, axis.cfg.max_raw} ELSE {run.raw}

\* 0 and 60 ms fall outside the interval the warm-up accepts and are clamped
WarmupDeltas == IF steps < WarmupFree THEN {0, 16, 60} ELSE {16}

InitWarmup ==
    /\ \E s \in SettleTimes :
         axis = smooth_axis_init(smooth_axis_default_config_auto(CANONICAL_MAX, s, TRUE))
    /\ clock \in ClockStarts(axis)
    /\ call = [op |-> INIT, raw |-> 0, dt |-> 0, ret |-> FALSE,
               prev_op |-> INIT, prev_ret |-> FALSE, reports |-> 0]
    /\ pre = axis
    /\ run = NoRun
    /\ steps = 0

WarmupUpdateAuto ==
    /\ steps < SMOOTH_AXIS_INIT_CALIBRATION_CYCLES + WarmupTail
    /\ steps < WarmupFree \/ call.op # UPDATE_AUTO
    /\ UpdateAutoWith(WarmupRaws, WarmupDeltas)

WarmupHasNewValue ==
    /\ steps < WarmupFree \/ call.op = UPDATE_AUTO
    /\ HasNewValue

NextWarmup == WarmupUpdateAuto \/ WarmupHasNewValue

SpecWarmup == InitWarmup /\ [][NextWarmup]_vars

-----------------------------------------------------------------------------
(* the warm-up loop of an AUTO axis with resets, during the first calls of the
   warm-up and after its end *)

ResetDuringWarmup ==
    /\ steps < WarmupFree \/ auto_warmup_has_finished(axis)
    /\ call.op # RESET
    /\ \E raw_value \in {0, axis.cfg.max_raw}, seeded \in BOOLEAN :
         /\ axis' = smooth_axis_reset(axis, raw_value, seeded)
         /\ call' = [Call(RESET, raw_value, 0, FALSE) EXCEPT !.reports = 0]
         /\ run' = [NoRun EXCEPT !.raw = raw_value]
    /\ pre' = axis
    /\ UNCHANGED <<clock, steps>>

NextReset == WarmupUpdateAuto \/ WarmupHasNewValue \/ ResetDuringWarmup

SpecReset == InitWarmup /\ [][NextReset]_vars

-----------------------------------------------------------------------------
(* two scripted runs of a LIVE axis with a 10-bit input, dt = 0.016 s per call
   and has_new_value polled after every update: a step (the first sample 0,
   then 1023 on every call) on the default configuration, and a run at the
   floor (5 on every call, then 0) with a sticky zone of 1% *)

\* update calls made after the first sample
ScenarioCalls == 40

ScenarioDts == {16000}

ScenarioStickyZones == {10000}

ScenarioConfigs ==
    {smooth_axis_default_config_live_deltatime(CANONICAL_MAX, t) : t \in SettleTimes}
    \cup {[smooth_axis_default_config_live_deltatime(CANONICAL_MAX, t)
              EXCEPT !.sticky_zone_norm = z] : t \in SettleTimes, z \in ScenarioStickyZones}

FloorScenario(a) == a.cfg.sticky_zone_norm \in ScenarioStickyZones

StepScenario(a) == ~FloorScenario(a)

\* the next raw value of the script
ScenarioRaws ==
    IF FloorScenario(axis)
    THEN (IF steps = 0 THEN {5} ELSE IF run.raw = 0 THEN {0} ELSE {5, 0})
    ELSE (IF steps = 0 THEN {0} ELSE {axis.cfg.max_raw})

InitScenario ==
    /\ \E cfg \in ScenarioConfigs : axis = smooth_axis_init(cfg)
    /\ clock = U32(0, 0)
    /\ call = [op |-> INIT, raw |-> 0, dt |-> 0, ret |-> FALSE,
               prev_op |-> INIT, prev_ret |-> FALSE, reports |-> 0]
    /\ pre = axis
    /\ run = NoRun
    /\ steps = 0

ScenarioUpdate ==
    /\ steps <= ScenarioCalls
    /\ call.op # UPDATE_LIVE
    /\ UpdateLiveWith(ScenarioRaws, ScenarioDts)

ScenarioPoll ==
    /\ call.op = UPDATE_LIVE
    /\ HasNewValue

NextScenario == ScenarioUpdate \/ ScenarioPoll

SpecScenario == InitScenario /\ [][NextScenario]_vars

-----------------------------------------------------------------------------
(* the output mapping over its domain: a LIVE axis without smoothing (dt = 0,
   so every update puts the position on the sample) takes positions on a grid
   over [0, 1], for sticky margins over [0, 0.49] *)

\* update calls made on one axis
StickyCalls == 1

\* the grid: raw values 0, 31, 62, ... (33 * 31 = 1023)
GridPoints == 33

GridRaws == {31 * i : i \in 0..GridPoints}

\* sticky margins: none, the default, 10%, 25% and the largest one
StickyMargins == {0, Div(STICKY_U, CANONICAL_MAX), 100000, 250000, 490000}

InitSticky ==
    /\ \E t \in SettleTimes, z \in StickyMargins :
         axis = smooth_axis_init([smooth_axis_default_config_live_deltatime(CANONICAL_MAX, t)
                                     EXCEPT !.sticky_zone_norm = z])
    /\ clock = U32(0, 0)
    /\ call = [op |-> INIT, raw |-> 0, dt |-> 0, ret |-> FALSE,
               prev_op |-> INIT, prev_ret |-> FALSE, reports |-> 0]
    /\ pre = axis
    /\ run = NoRun
    /\ steps = 0

StickyUpdate == steps < StickyCalls /\ UpdateLiveWith(GridRaws, {0})

NextSticky == StickyUpdate \/ HasNewValue

SpecSticky == InitSticky /\ [][NextSticky]_vars

-----------------------------------------------------------------------------
(* the calls of Spec together with the read-only queries *)

\* update calls made on one axis
QueryCalls == 2

GET_NORM == "smooth_axis_get_norm"
GET_U16 == "smooth_axis_get_u16"
GET_NOISE == "smooth_axis_get_noise_norm"
GET_THRESH_NORM == "smooth_axis_get_effective_thresh_norm"
GET_THRESH_U == "smooth_axis_get_effective_thresh_u"

Queries == {GET_NORM, GET_U16, GET_NOISE, GET_THRESH_NORM, GET_THRESH_U}

\* what query q returns on axis a
QueryValue(q, a) ==
    CASE q = GET_NORM        -> smooth_axis_get_norm(a)
      [] q = GET_U16         -> smooth_axis_get_u16(a)
      [] q = GET_NOISE       -> smooth_axis_get_noise_norm(a)
      [] q = GET_THRESH_NORM -> smooth_axis_get_effective_thresh_norm(a)
      [] q = GET_THRESH_U    -> smooth_axis_get_effective_thresh_u(a)

\* a query takes the axis by pointer to const and returns a value; the value
\* is kept in call.val
Query ==
    /\ \E q \in Queries :
         call' = [op |-> q, raw |-> 0, dt |-> 0, ret |-> FALSE,
                  prev_op |-> call.op, prev_ret |-> call.ret,
                  reports |-> call.reports, val |-> QueryValue(q, axis)]
    /\ pre' = axis
    /\ UNCHANGED <<axis, clock, run, steps>>

QueryUpdateAuto == steps < QueryCalls /\ UpdateAutoWith(RawSamples(axis), ClockDeltas(axis))

QueryUpdateLive == steps < QueryCalls /\ UpdateLiveWith(RawSamples(axis), DtSamples)

NextQueries == QueryUpdateAuto \/ QueryUpdateLive \/ HasNewValue \/ Query

SpecQueries == Init /\ [][NextQueries]_vars

-----------------------------------------------------------------------------
(* properties *)

IsUpdate(c) == c.op \in {UPDATE_AUTO, UPDATE_LIVE}

\* the last call was an update through the entry point of the axis's mode
Accepted ==
    \/ call.op = UPDATE_AUTO /\ pre.cfg.mode = AUTO_DT
    \/ call.op = UPDATE_LIVE /\ pre.cfg.mode = LIVE_DT

\* the last call was an update through the entry point of the other mode
Mismatched == IsUpdate(call) /\ ~Accepted

\* one output quantization step, 1 / max_raw
Quantum(a) == Div(1, a.cfg.max_raw)

\* |sticky-mapped position - last reported position| of axis a
PendingDiff(a) == abs_f(get_normalized(a) - a._last_reported_norm)

\* C1: has_new_value called twice in a row, with no other call in between,
\* returns false the second time, whatever the first call returned.
C1_SecondPollFalse ==
    (call.op = HAS_NEW_VALUE /\ call.prev_op = HAS_NEW_VALUE) => ~call.ret

\* two polls in a row, the first of which reported a change
C1_Witness ==
    call.op = HAS_NEW_VALUE /\ call.prev_op = HAS_NEW_VALUE /\ call.prev_ret /\ ~call.ret

\* C2: smoothed_norm, the noise estimate and last_reported_norm lie in [0,1],
\* get_norm returns a value in [0,1] and get_u16 a value in [0, max_raw].
C2_Ranges ==
    /\ axis._smoothed_norm \in 0..One
    /\ axis._dev_norm \in 0..One
    /\ axis._last_reported_norm \in 0..One
    /\ smooth_axis_get_norm(axis) \in 0..One
    /\ smooth_axis_get_u16(axis) \in 0..axis.cfg.max_raw

\* after updates and a report: a position strictly inside the range, a noise
\* estimate that has moved, and an integer output strictly inside the range
C2_Witness ==
    /\ steps >= 3
    /\ axis._smoothed_norm \in 1..(One - 1)
    /\ axis._last_reported_norm \in 1..(One - 1)
    /\ axis._dev_norm # pre._dev_norm
    /\ smooth_axis_get_u16(axis) \in 1..(axis.cfg.max_raw - 1)

StickyFloor(a) == clamp_f(a.cfg.sticky_zone_norm, 0, 490000)
StickyCeiling(a) == One - StickyFloor(a)

\* C4: with the unmapped smoothed_norm below the sticky floor or above the
\* sticky ceiling and the position more than 1/max_raw away from the last
\* reported one, has_new_value returns true, however large the threshold.
C4_ExtremesAlwaysReported ==
    (/\ call.op = HAS_NEW_VALUE
     /\ pre._has_first_sample
     /\ (pre._smoothed_norm < StickyFloor(pre) \/ pre._smoothed_norm > StickyCeiling(pre))
     /\ PendingDiff(pre) > Quantum(pre))
        => call.ret

\* such a poll with the movement below the dynamic threshold
C4_Witness ==
    /\ call.op = HAS_NEW_VALUE
    /\ pre._has_first_sample
    /\ (pre._smoothed_norm < StickyFloor(pre) \/ pre._smoothed_norm > StickyCeiling(pre))
    /\ PendingDiff(pre) > Quantum(pre)
    /\ PendingDiff(pre) <= get_dynamic_thresh(pre)
    /\ call.ret

\* C5: while every accepted update feeds the same raw value (the current run,
\* started from whatever state the axis was in), smoothed_norm stays on the
\* side of the normalized target it started from and every update moves it
\* towards the target, and each position reported by a has_new_value call that
\* returns true lies beyond the previous one of the run in the direction of
\* the target.
C5_NoOvershootMonotoneReports ==
    run.raw # -1 =>
        /\ run.dir = 1  => axis._smoothed_norm <= input_norm(axis, run.raw)
        /\ run.dir = -1 => axis._smoothed_norm >= input_norm(axis, run.raw)
        /\ run.dir = 0  => axis._smoothed_norm = input_norm(axis, run.raw)
        /\ (Accepted /\ pre._has_first_sample)
               => run.dir * (axis._smoothed_norm - pre._smoothed_norm) >= 0
        /\ run.prev # -1 => run.dir * (run.rep - run.prev) > 0

\* a second report within one run, on the way down to a target not yet reached
C5_Witness ==
    /\ call.op = HAS_NEW_VALUE
    /\ call.ret
    /\ run.prev # -1
    /\ run.dir = -1
    /\ run.rep < run.prev
    /\ axis._smoothed_norm > input_norm(axis, run.raw)

\* the axis has settled on the raw value fed to it: smoothed_norm is the
\* normalized input itself
Settled == run.raw # -1 /\ axis._smoothed_norm = input_norm(axis, run.raw)

\* C6: fed raw = 0 (raw = max_raw) on every update, get_u16 ends up at exactly
\* 0 (exactly max_raw), for every max_raw >= 1.  Stated for the state the feed
\* ends in: once the axis has settled on raw = 0 or raw = max_raw, the integer
\* output is that raw value.
C6_EndpointExact ==
    (Settled /\ run.raw \in {0, axis.cfg.max_raw}) => smooth_axis_get_u16(axis) = run.raw

\* C7: the first accepted update after init sets smoothed_norm to the
\* normalized input and sets has_first_sample; the noise estimate,
\* last_residual and last_reported_norm keep their init values, and no other
\* field of the filter or of the configuration changes (on an AUTO axis the
\* warm-up step of the same call records the clock reading).
C7_FirstSampleTeleports ==
    (Accepted /\ ~pre._has_first_sample) =>
        /\ axis._smoothed_norm = input_norm(pre, call.raw)
        /\ axis._has_first_sample
        /\ axis._dev_norm = smooth_axis_init(pre.cfg)._dev_norm
        /\ axis._last_residual = smooth_axis_init(pre.cfg)._last_residual
        /\ axis._last_reported_norm = smooth_axis_init(pre.cfg)._last_reported_norm
        /\ axis = [pre EXCEPT !._smoothed_norm = axis._smoothed_norm,
                              !._has_first_sample = TRUE,
                              !._last_time_ms = axis._last_time_ms]
        /\ (pre.cfg.mode = LIVE_DT => axis._last_time_ms = pre._last_time_ms)

\* a first sample of raw = max_raw with a smoothing coefficient below 1
C7_Witness ==
    /\ Accepted
    /\ ~pre._has_first_sample
    /\ call.op = UPDATE_LIVE
    /\ ema_alpha_from_dt(pre.cfg._ema_rate, call.dt) < One
    /\ axis._smoothed_norm = One

FallbackAlpha(a) == ema_alpha_from_dt(a.cfg._ema_rate, FALLBACK_DELTA_TIME)

\* the alpha of the average interval the warm-up of axis a has measured
MeasuredAlpha(a) ==
    ema_alpha_from_dt(a.cfg._ema_rate, DivInt(a._dt_accum_sec, a._warmup_cycles_done))

\* C9: on an AUTO axis auto_alpha is the fallback alpha of a 16 ms interval as
\* long as the warm-up has not finished; the call that finishes the warm-up is
\* an update_auto and sets it to the alpha of the measured average interval;
\* from then on no call changes auto_alpha, the cycle count, the accumulated
\* time or the last clock reading.
C9_AlphaCalibratedOnce ==
    /\ ~auto_warmup_has_finished(axis) => axis._auto_alpha = FallbackAlpha(axis)
    /\ (auto_warmup_has_finished(axis) /\ ~auto_warmup_has_finished(pre)) =>
           /\ call.op = UPDATE_AUTO
           /\ pre._auto_alpha = FallbackAlpha(pre)
           /\ axis._auto_alpha = MeasuredAlpha(axis)
    /\ auto_warmup_has_finished(pre) =>
           /\ axis._auto_alpha = pre._auto_alpha
           /\ axis._warmup_cycles_done = pre._warmup_cycles_done
           /\ axis._dt_accum_sec = pre._dt_accum_sec
           /\ axis._last_time_ms = pre._last_time_ms

\* an update_auto on a calibrated axis whose alpha differs from the fallback,
\* at a clock reading later than the last one the warm-up recorded
C9_Witness ==
    /\ auto_warmup_has_finished(pre)
    /\ call.op = UPDATE_AUTO
    /\ axis._auto_alpha # FallbackAlpha(axis)
    /\ clock # axis._last_time_ms

\* the number of warm-up cycles that the documentation of update_auto gives
DOCUMENTED_WARMUP_CYCLES == 256

\* C10: the warm-up ends with its 256th cycle: up to there auto_alpha is the
\* fallback alpha, the call that brings the cycle count to 256 sets it to the
\* alpha of the measured average interval, and no cycle is counted after it.
C10_CalibratedAt256Cycles ==
    /\ axis._warmup_cycles_done <= DOCUMENTED_WARMUP_CYCLES
    /\ axis._warmup_cycles_done < DOCUMENTED_WARMUP_CYCLES
           => axis._auto_alpha = FallbackAlpha(axis)
    /\ axis._warmup_cycles_done = DOCUMENTED_WARMUP_CYCLES
           => axis._auto_alpha = MeasuredAlpha(axis)

\* C11: reset leaves the warm-up bookkeeping of an AUTO axis (accumulated
\* time, cycle count, last clock reading, auto_alpha) as it was: a finished
\* warm-up stays finished, and an unfinished one counts its next cycle on top
\* of the cycles it had.
C11_ResetKeepsWarmup ==
    /\ call.op = RESET =>
           /\ axis._dt_accum_sec = pre._dt_accum_sec
           /\ axis._warmup_cycles_done = pre._warmup_cycles_done
           /\ axis._last_time_ms = pre._last_time_ms
           /\ axis._auto_alpha = pre._auto_alpha
           /\ auto_warmup_has_finished(axis) = auto_warmup_has_finished(pre)
    /\ (/\ call.op = UPDATE_AUTO
        /\ call.prev_op = RESET
        /\ ~auto_warmup_has_finished(pre)
        /\ pre._last_time_ms # U32(0, 0)) =>
           axis._warmup_cycles_done = pre._warmup_cycles_done + 1

\* a reset that moves a tracking axis whose warm-up has finished with a
\* measured alpha
C11_Witness ==
    /\ call.op = RESET
    /\ auto_warmup_has_finished(pre)
    /\ pre._auto_alpha # FallbackAlpha(pre)
    /\ pre._has_first_sample
    /\ axis._smoothed_norm # pre._smoothed_norm

\* the last call was an update_auto that measured an interval: the warm-up
\* was unfinished and held an earlier clock reading
WarmupCycleRan ==
    /\ call.op = UPDATE_AUTO
    /\ pre.cfg.mode = AUTO_DT
    /\ pre.cfg.now_ms
    /\ ~auto_warmup_has_finished(pre)
    /\ pre._last_time_ms # U32(0, 0)

\* C12: a warm-up cycle accumulates the milliseconds that have really passed
\* since the previous call, also when the 32-bit clock has wrapped in between,
\* clamped to [0.1 ms, 50 ms]; so after n cycles the accumulated time lies in
\* [n * 0.1 ms, n * 50 ms].
C12_WrapSafeClampedInterval ==
    /\ WarmupCycleRan =>
           /\ axis._warmup_cycles_done = pre._warmup_cycles_done + 1
           /\ axis._dt_accum_sec = pre._dt_accum_sec
                  + DivInt(clamp_f(call.dt * One, SMOOTH_AXIS_AUTO_DT_MIN_MS,
                                   SMOOTH_AXIS_AUTO_DT_MAX_MS), 1000)
    /\ axis._dt_accum_sec >= axis._warmup_cycles_done * (SMOOTH_AXIS_AUTO_DT_MIN_MS \div 1000)
    /\ axis._dt_accum_sec <= axis._warmup_cycles_done * (SMOOTH_AXIS_AUTO_DT_MAX_MS \div 1000)

\* a cycle of 16 ms measured across the wrap of the clock
C12_Witness ==
    /\ WarmupCycleRan
    /\ pre._last_time_ms.hi = Half - 1
    /\ clock.hi = 0
    /\ call.dt = 16
    /\ axis._dt_accum_sec = pre._dt_accum_sec + 16000

\* the smoothing coefficient that the last update, made on axis a, has used
AlphaUsed(a) ==
    IF call.op = UPDATE_LIVE THEN ema_alpha_from_dt(a.cfg._ema_rate, call.dt)
    ELSE auto_run_warmup_cycle_if_needed(a, clock)._auto_alpha

\* C13: on an axis that has its first sample, an accepted update_live_deltatime
\* with dt <= 0, and every accepted update on an axis configured with
\* settle_time_sec <= 0, uses alpha = 1 and leaves smoothed_norm at the
\* normalized input of that call.
C13_NoSmoothingFallback ==
    (/\ Accepted
     /\ pre._has_first_sample
     /\ \/ call.op = UPDATE_LIVE /\ call.dt <= 0
        \/ pre.cfg.settle_time_sec <= 0) =>
        /\ AlphaUsed(pre) = One
        /\ axis._smoothed_norm = input_norm(pre, call.raw)

\* an update with a negative dt on a smoothing axis that was away from the input
C13_Witness ==
    /\ Accepted
    /\ pre._has_first_sample
    /\ call.op = UPDATE_LIVE
    /\ call.dt < 0
    /\ pre.cfg.settle_time_sec > 0
    /\ pre._smoothed_norm # input_norm(pre, call.raw)
    /\ axis._smoothed_norm = input_norm(pre, call.raw)

\* the last call was an update_auto on an AUTO axis without clock source
UpdatedWithoutClock ==
    call.op = UPDATE_AUTO /\ pre.cfg.mode = AUTO_DT /\ ~pre.cfg.now_ms

\* C14 as stated: update_auto on an AUTO axis without clock source changes
\* nothing: smoothed_norm, the noise estimate, last_residual, has_first_sample
\* and the warm-up fields are as before the call.
C14_NoClockUpdateSkipped ==
    UpdatedWithoutClock =>
        /\ axis._smoothed_norm = pre._smoothed_norm
        /\ axis._dev_norm = pre._dev_norm
        /\ axis._last_residual = pre._last_residual
        /\ axis._has_first_sample = pre._has_first_sample
        /\ axis._dt_accum_sec = pre._dt_accum_sec
        /\ axis._warmup_cycles_done = pre._warmup_cycles_done
        /\ axis._last_time_ms = pre._last_time_ms
        /\ axis._auto_alpha = pre._auto_alpha

\* C14, amended: update_auto on an AUTO axis without clock source skips the
\* warm-up cycle only: the warm-up fields stay as they are and auto_alpha stays
\* the fallback alpha, while the sample is taken as in any update: as the
\* first sample, or smoothed with the fallback alpha, with last_residual set to
\* the residual of the call.
C14_NoClockSkipsWarmupOnly ==
    UpdatedWithoutClock =>
        /\ axis._dt_accum_sec = pre._dt_accum_sec
        /\ axis._warmup_cycles_done = pre._warmup_cycles_done
        /\ axis._last_time_ms = pre._last_time_ms
        /\ axis._auto_alpha = FallbackAlpha(pre)
        /\ axis._has_first_sample
        /\ ~pre._has_first_sample => axis._smoothed_norm = input_norm(pre, call.raw)
        /\ pre._has_first_sample =>
               LET diff == input_norm(pre, call.raw) - pre._smoothed_norm
               IN  /\ axis._smoothed_norm = pre._smoothed_norm + Mul(FallbackAlpha(pre), diff)
                   /\ axis._last_residual = diff

\* an update without clock source that moves a tracking axis
C14_Witness ==
    /\ UpdatedWithoutClock
    /\ pre._has_first_sample
    /\ axis._smoothed_norm # pre._smoothed_norm
    /\ axis._last_residual # pre._last_residual

\* the sticky margin as apply_sticky_margins clamps it
ClampedStickyZone(a) == clamp_f(a.cfg.sticky_zone_norm, 0, 490000)

\* the floor and ceiling that the edge test of has_new_value compares with
EdgeFloor(a) == a.cfg.sticky_zone_norm
EdgeCeiling(a) == One - a.cfg.sticky_zone_norm

\* C15: whatever cfg.sticky_zone_norm holds, the operations that compare a
\* position with the sticky floor and ceiling use the margin clamped to
\* [0, 0.49]: the position that get_norm returns is mapped with the clamped
\* margin, and the floor and ceiling of the edge test of has_new_value are the
\* clamped margin and 1 - the clamped margin, with floor < ceiling.
C15_StickyMarginClamped ==
    /\ axis._has_first_sample =>
           smooth_axis_get_norm(axis)
               = apply_sticky_margins(axis._smoothed_norm, ClampedStickyZone(axis))
    /\ (call.op = HAS_NEW_VALUE /\ pre._has_first_sample) =>
           /\ EdgeFloor(pre) = ClampedStickyZone(pre)
           /\ EdgeCeiling(pre) = One - ClampedStickyZone(pre)
           /\ EdgeFloor(pre) < EdgeCeiling(pre)

\* the dead-zone bounds of axis a are degenerate
Degenerate(a) == a.cfg.full_on_norm <= a.cfg.full_off_norm

\* axis a with the full-range dead-zone bounds 0 and 1
WithFullRange(a) == [a EXCEPT !.cfg.full_off_norm = 0, !.cfg.full_on_norm = One]

\* C16: with degenerate dead-zone bounds (full_on_norm <= full_off_norm) every
\* raw value in [0, max_raw] normalizes as with the bounds 0 and 1, to
\* raw / max_raw, a value in [0, 1]; the first sample of such an axis is that
\* value.
C16_DegenerateDeadZone ==
    /\ (call.op = INIT /\ Degenerate(axis)) =>
           \A raw_value \in 0 .. axis.cfg.max_raw :
               /\ input_norm(axis, raw_value) = input_norm(WithFullRange(axis), raw_value)
               /\ input_norm(axis, raw_value) = Div(raw_value, axis.cfg.max_raw)
               /\ input_norm(axis, raw_value) \in 0 .. One
    /\ (Accepted /\ Degenerate(pre) /\ ~pre._has_first_sample) =>
           axis._smoothed_norm = Div(call.raw, pre.cfg.max_raw)

\* a first sample strictly inside the range on an axis with inverted bounds
C16_Witness ==
    /\ Accepted
    /\ pre.cfg.full_on_norm < pre.cfg.full_off_norm
    /\ ~pre._has_first_sample
    /\ call.raw = 5
    /\ axis._smoothed_norm = Div(5, pre.cfg.max_raw)
    /\ axis._smoothed_norm > 0

\* no update has been accepted since smooth_axis_init
BeforeFirstUpdate == run.raw = -1

\* C17: between smooth_axis_init and the first accepted update has_first_sample
\* is false, get_norm returns 0.0, get_u16 returns 0, and has_new_value
\* returns false and leaves the axis as it is.
C17_QueriesBeforeFirstSample ==
    BeforeFirstUpdate =>
        /\ ~axis._has_first_sample
        /\ smooth_axis_get_norm(axis) = 0
        /\ smooth_axis_get_u16(axis) = 0
        /\ smooth_axis_has_new_value(axis) = [ret |-> FALSE, axis |-> axis]
        /\ call.op = HAS_NEW_VALUE => (~call.ret /\ axis = pre)

\* has_new_value polled after an update that the axis did not accept
C17_Witness ==
    /\ BeforeFirstUpdate
    /\ call.op = HAS_NEW_VALUE
    /\ IsUpdate([op |-> call.prev_op])
    /\ ~call.ret
    /\ axis = smooth_axis_init(axis.cfg)

\* every update accepted since smooth_axis_init has fed the same raw value
ConstantSinceInit == run.raw # -1 /\ run.first

\* C18: while every update since smooth_axis_init has fed the same raw value,
\* smoothed_norm is the value the first sample gave it, the normalized input,
\* and no update changes it; has_new_value has returned true at most once.
C18_ConstantInputIsStable ==
    ConstantSinceInit =>
        /\ axis._smoothed_norm = input_norm(axis, run.raw)
        /\ (Accepted /\ pre._has_first_sample) => axis._smoothed_norm = pre._smoothed_norm
        /\ run.prev = -1

\* the one report of a run of a thousand or more equal samples, followed by an
\* update and a poll that reports nothing
C18_Witness ==
    /\ ConstantSinceInit
    /\ steps >= 1000
    /\ run.rep # -1
    /\ call.op = HAS_NEW_VALUE
    /\ ~call.ret
    /\ IsUpdate([op |-> call.prev_op])

\* noise estimate x multiplier x attenuation scalar of axis a
NoiseTerm(a) == Mul(Mul(K, smooth_axis_get_noise_norm(a)), a.cfg._dyn_scale)

\* the ceiling of the threshold, 10 x movement_thresh_norm
MaxThreshold(a) == 10 * a.cfg.movement_thresh_norm

C20_ThresholdAtLeastBase ==
    /\ smooth_axis_get_effective_thresh_norm(axis) >= axis.cfg.movement_thresh_norm
    /\ smooth_axis_get_effective_thresh_norm(axis) <= MaxThreshold(axis)

\* the integer smooth_axis_get_u16 gives for the position last reported by a
ReportedU16(a) ==
    LET max_out == a.cfg.max_raw
        n       == a._last_reported_norm
    IN  IF n <= Div(1, max_out) THEN 0
        ELSE IF n >= Div(max_out - 1, max_out) THEN a.cfg.max_raw
        ELSE Mul(n, max_out)

\* the number of calls with raw = max_raw made so far in the step run
StepCall == steps - 1

\* the last call was a poll
Polled == call.op = HAS_NEW_VALUE

\* the step run: the first sample reports nothing, the first report of 972 or
\* more (95% of the step) comes on the 15th, 16th or 17th call
StepCrossing ==
    StepScenario(axis) =>
        /\ (steps = 1 /\ Polled) => ~call.ret
        /\ ReportedU16(axis) >= 972 => StepCall >= 15
        /\ (StepCall >= 17 /\ Polled) => ReportedU16(axis) >= 972

\* C21 as stated: in the step run the first sample reports nothing, the
\* first report whose integer value is 972 or more comes on the 15th, 16th or
\* 17th call with raw = 1023, and after the 16th call the reported integer
\* value is 1023.
C21_StepScenario ==
    /\ StepCrossing
    /\ (StepScenario(axis) /\ StepCall = 16 /\ Polled) => ReportedU16(axis) = 1023

\* C21, amended: in the step run the first sample reports nothing and the
\* first report of 972 or more comes on the 16th call; after those 16 calls
\* the reported integer value is still below 1023, which is first reported on
\* the 30th call and is the reported value from then on.
C21_StepScenarioSettles ==
    /\ StepCrossing
    /\ StepScenario(axis) =>
        /\ (StepCall = 15 /\ Polled) => ReportedU16(axis) < 972
        /\ (StepCall = 16 /\ Polled) => ReportedU16(axis) = 978
        /\ ReportedU16(axis) = 1023 => StepCall >= 30
        /\ (StepCall >= 30 /\ Polled) => ReportedU16(axis) = 1023

\* the 16th call of the step run has been polled and reported 95% or more
C21_Witness ==
    /\ StepScenario(axis)
    /\ StepCall = 16
    /\ Polled /\ call.ret
    /\ ReportedU16(axis) >= 972

\* the run at the floor never shows a nonzero integer: the output is 0 after
\* every call and the reported position maps to 0
FloorOutputZero ==
    /\ smooth_axis_get_u16(axis) = 0
    /\ ReportedU16(axis) = 0
    /\ (Polled /\ call.ret) => smooth_axis_get_u16(axis) = 0

\* C22 as stated: the run at the floor (sticky zone 0.01, raw 5, 5, 5, ..., 0,
\* polled after every update) yields exactly one true report, the integer
\* output at that report is 0, and the integer output never dithers between
\* small nonzero integers.
C22_FloorOneReport ==
    FloorScenario(axis) =>
        /\ FloorOutputZero
        /\ call.reports <= 1
        /\ (run.raw = 0 /\ Polled) => call.reports = 1

\* C22, amended: the run at the floor yields no true report at all: the
\* axis starts with the reported position 0, every sample lies in the sticky
\* zone and maps to 0, so the integer output is 0 after every call and is
\* never a small nonzero integer.
C22_FloorNoReport ==
    FloorScenario(axis) =>
        /\ FloorOutputZero
        /\ call.reports = 0
        /\ Polled => ~call.ret

\* the run at the floor after some samples of 5 and the final 0, polled: the
\* position lies inside the sticky zone above 0
C22_Witness ==
    /\ FloorScenario(axis)
    /\ steps >= 4
    /\ run.raw = 0
    /\ Polled
    /\ axis._smoothed_norm > 0
    /\ axis._smoothed_norm <= StickyFloor(axis)

\* (v - z) / (1 - 2z): the middle band [z, 1 - z] stretched onto [0, 1]
BandRemap(v, z) == Div(v - z, One - 2 * z)

\* C23: for a position v in [0, 1] and a sticky margin z in [0, 0.49] the
\* sticky-mapped output is 0 when v <= z, 1 when v >= 1 - z, and
\* (v - z) / (1 - 2z) in between (to within two units of the last digit).
C23_StickyRemapLinear ==
    axis._has_first_sample =>
        LET v == axis._smoothed_norm
            z == StickyFloor(axis)
        IN  /\ v <= z => smooth_axis_get_norm(axis) = 0
            /\ v >= One - z => smooth_axis_get_norm(axis) = One
            /\ (z < v /\ v < One - z) =>
                   abs_f(smooth_axis_get_norm(axis) - BandRemap(v, z)) <= 2

\* the sticky-mapped position of a lies strictly between the sticky floor and
\* the sticky ceiling that has_new_value uses
InBand(a) ==
    /\ a._has_first_sample
    /\ get_normalized(a) > EdgeFloor(a)
    /\ get_normalized(a) < EdgeCeiling(a)

\* C24: when the sticky-mapped position is strictly between the sticky floor
\* and the sticky ceiling, has_new_value returns true if and only if
\* |position - last reported position| is greater than 1 / max_raw and greater
\* than the current dynamic threshold.
C24_ThresholdDecidesInBand ==
    (Polled /\ InBand(pre)) =>
        (call.ret <=> (/\ PendingDiff(pre) > Quantum(pre)
                       /\ PendingDiff(pre) > get_dynamic_thresh(pre)))

\* a poll inside the band that returned false for a change above one
\* quantization step, which the dynamic threshold held back
C24_Witness ==
    /\ Polled
    /\ InBand(pre)
    /\ PendingDiff(pre) > Quantum(pre)
    /\ PendingDiff(pre) <= get_dynamic_thresh(pre)
    /\ ~call.ret

\* the last call was an accepted update that was not the first sample
Smoothed == Accepted /\ pre._has_first_sample

\* the residual of the last update: its normalized input minus the position
\* before the update
Residual == input_norm(pre, call.raw) - pre._smoothed_norm

\* the residual of the last update has the sign of the residual before it
SameSign == sign_of(Residual) = sign_of(pre._last_residual)

\* C25: on an update after the first sample the noise estimate increases only
\* if the sign of the residual differs from the sign of the previous residual
\* and |residual| exceeds the estimate; when the residual keeps its nonzero
\* sign, or is zero twice in a row, the estimate is multiplied by 1 - 0.005
\* and does not increase.
C25_NoiseEstimateRule ==
    Smoothed =>
        /\ axis._dev_norm > pre._dev_norm =>
               (~SameSign /\ abs_f(Residual) > pre._dev_norm)
        /\ SameSign =>
               /\ axis._dev_norm = Mul(One - BETA, pre._dev_norm)
               /\ axis._dev_norm <= pre._dev_norm

\* an update whose residual kept its nonzero sign: the estimate has decayed
C25_Witness ==
    /\ Smoothed
    /\ SameSign
    /\ sign_of(Residual) # 0
    /\ axis._dev_norm < pre._dev_norm

\* the sample the noise estimator takes for residual r after the residual last
NoiseSample(r, last) == IF sign_has_flipped(r, last) THEN abs_f(r) ELSE 0

\* C26: on an update after the first sample the residual is the normalized
\* input minus smoothed_norm as it was before the update; that value
\* drives the smoothing step (smoothed_norm grows by alpha * residual) and the
\* noise estimator, and it is the value stored in last_residual.
C26_PreUpdateResidual ==
    Smoothed =>
        /\ axis._smoothed_norm = pre._smoothed_norm + Mul(AlphaUsed(pre), Residual)
        /\ axis._dev_norm =
               clamp_f_0_1(ema(pre._dev_norm, NoiseSample(Residual, pre._last_residual), BETA))
        /\ axis._last_residual = Residual

\* an update that moved the position part of the way to its input, so that
\* the residuals before and after the step differ
C26_Witness ==
    /\ Smoothed
    /\ Residual # 0
    /\ axis._smoothed_norm # pre._smoothed_norm
    /\ axis._smoothed_norm # input_norm(pre, call.raw)
    /\ axis._last_residual = Residual

\* the last call was an update_auto made while the warm-up was not finished
WarmupCall == call.op = UPDATE_AUTO /\ pre.cfg.mode = AUTO_DT /\ pre.cfg.now_ms
                  /\ ~auto_warmup_has_finished(pre)

\* C27: during the warm-up of an AUTO axis the very first update_auto call is
\* the only one that is skipped for accumulation (it only records the clock
\* reading); every later update_auto call made before the calibration is
\* complete increments the cycle count by exactly one, whatever the clock reads.
C27_OnlyFirstCallSkipped ==
    WarmupCall =>
        IF steps = 1
        THEN /\ axis._warmup_cycles_done = pre._warmup_cycles_done
             /\ axis._dt_accum_sec = pre._dt_accum_sec
             /\ axis._last_time_ms = clock
        ELSE axis._warmup_cycles_done = pre._warmup_cycles_done + 1

\* C28: when has_new_value returns false because the position differs from the
\* last reported position by at most 1 / max_raw, get_u16 gives the integer it
\* gave at the last reported position.
C28_QuantumKeepsInteger ==
    (/\ Polled
     /\ ~call.ret
     /\ pre._has_first_sample
     /\ PendingDiff(pre) <= Quantum(pre)) =>
        smooth_axis_get_u16(axis) = ReportedU16(axis)

\* the last call was one of the read-only queries
Queried == call.op \in Queries

\* C29: the queries get_norm, get_u16, get_noise_norm and the effective-
\* threshold getters leave the whole axis unchanged and return the value of
\* the state they are called in; has_new_value changes no field other than
\* last_reported_norm, changes it only when it returns true, and then stores
\* the value get_norm returns in that state.
C29_QueriesArePure ==
    /\ Queried => (axis = pre /\ call.val = QueryValue(call.op, pre))
    /\ Polled =>
           axis = IF call.ret
                  THEN [pre EXCEPT !._last_reported_norm = smooth_axis_get_norm(pre)]
                  ELSE pre
    /\ (Polled /\ call.prev_op = GET_NORM /\ call.ret) =>
           axis._last_reported_norm = smooth_axis_get_norm(pre)

\* a report right after a get_norm query: last_reported_norm has moved to the
\* queried value, away from the position before the sticky mapping
C29_Witness ==
    /\ Polled
    /\ call.prev_op = GET_NORM
    /\ call.ret
    /\ axis._last_reported_norm # pre._last_reported_norm
    /\ axis._last_reported_norm # axis._smoothed_norm

\* C30: update_live_deltatime changes no field other than smoothed_norm, the
\* noise estimate, last_residual and has_first_sample: last_reported_norm,
\* the configuration and the warm-up fields (accumulated time, cycle count,
\* last clock reading, auto alpha) are as before the call.
C30_LiveUpdateFrame ==
    call.op = UPDATE_LIVE =>
        /\ axis._last_reported_norm = pre._last_reported_norm
        /\ axis.cfg = pre.cfg
        /\ axis._dt_accum_sec = pre._dt_accum_sec
        /\ axis._warmup_cycles_done = pre._warmup_cycles_done
        /\ axis._last_time_ms = pre._last_time_ms
        /\ axis._auto_alpha = pre._auto_alpha
        /\ axis = [pre EXCEPT !._smoothed_norm    = axis._smoothed_norm,
                              !._dev_norm         = axis._dev_norm,
                              !._last_residual    = axis._last_residual,
                              !._has_first_sample = axis._has_first_sample]

\* an accepted update_live_deltatime that moved the position and the noise
\* estimate and left a change to report, with the reported position untouched
C30_Witness ==
    /\ call.op = UPDATE_LIVE
    /\ Smoothed
    /\ axis._smoothed_norm # pre._smoothed_norm
    /\ axis._dev_norm # pre._dev_norm
    /\ PendingDiff(axis) > Quantum(axis)
    /\ PendingDiff(pre) <= Quantum(pre)
    /\ axis._last_reported_norm = pre._last_reported_norm

====
